---- MODULE Spec2Model ----
(***************************************************************************)
(* Model of holoviews.element.util: reduce_fn and the operation            *)
(* categorical_aggregate2d._process, which turns a table of                *)
(* (X, Y, values...) rows into a dense grid indexed by the unique X and Y   *)
(* values.                                                                 *)
(*                                                                         *)
(* A dataset lives in a store cell (an object); the call receives a        *)
(* reference to it.  A row is <<x, y, vs>>: the values of the first two     *)
(* dimensions (dims[:2]) and the sequence of the values of the remaining   *)
(* dimensions (dims[2:]).                                                  *)
(***************************************************************************)
EXTENDS Integers, Sequences, FiniteSets, TLC

\* ---------------------------------------------------------------- bounds
MaxRows == 3       \* rows of an input table
MaxCalls == 2      \* successive applications of the operation
MaxPoints == 2     \* points of a HexTiles element
MaxPaths == 2      \* paths of a Path / Contours element
MaxPathLen == 3    \* vertices of one path
MaxVerts == 5      \* vertices of a Spline element

\* np.NaN, the null marker (util.py line 56); genuine values are non-zero
NaN == 0

\* the labels of the first and of the second dimension, and the values
XVals == {1, 2}
YVals == {1, 2}
Vals == {NaN, 5, 7}
Refs == 0..MaxCalls

Range(s) == {s[i] : i \in DOMAIN s}

Max0(a) == IF a > 0 THEN a ELSE 0

\* ------------------------------------------------------- library helpers

\* is_nan(v)
is_nan(v) == v = NaN

\* a reducer that scans from the end: the last value that is not NaN
RECURSIVE reduce_fn_last(_)
reduce_fn_last(values) ==
    IF values = <<>> THEN NaN
    ELSE IF ~is_nan(values[Len(values)]) THEN values[Len(values)]
         ELSE reduce_fn_last(SubSeq(values, 1, Len(values) - 1))

\* reduce_fn(x): the first value of x that is not NaN, else NaN
RECURSIVE reduce_fn(_)
reduce_fn(values) ==
    IF values = <<>> THEN NaN
    ELSE IF ~is_nan(Head(values)) THEN Head(values)
         ELSE reduce_fn(Tail(values))

\* dimension_values(dim, False): the distinct values, in first-occurrence order
RECURSIVE unique_values(_)
unique_values(s) ==
    IF s = <<>> THEN <<>>
    ELSE LET p == unique_values(SubSeq(s, 1, Len(s) - 1))
             v == s[Len(s)]
         IN  IF v \in Range(p) THEN p ELSE Append(p, v)

\* np.sort: ascending, duplicates kept
RECURSIVE np_sort(_)
np_sort(s) ==
    IF s = <<>> THEN <<>>
    ELSE LET m == CHOOSE a \in Range(s) : \A b \in Range(s) : a <= b
             i == CHOOSE k \in DOMAIN s : s[k] = m
         IN  <<m>> \o np_sort(SubSeq(s, 1, i - 1) \o SubSeq(s, i + 1, Len(s)))

\* obj.dimension_values(dim) of a row table: the whole column
column(rows, d) == [i \in DOMAIN rows |-> rows[i][d]]

\* obj.groupby(xdim).values(): one sub-table per X value, in the order of the
\* first occurrence of the X values, each keeping the source row order
groupby(rows) ==
    LET ks == unique_values(column(rows, 1))
    IN  [g \in DOMAIN ks |-> SelectSeq(rows, LAMBDA r : r[1] = ks[g])]

\* ------------------------------------------------------------- datasets

NoData == [gridded |-> FALSE, nkdims |-> 0 - 1, nvdims |-> 0 - 1,
           rows |-> <<>>, xs |-> <<>>, ys |-> <<>>, cells |-> <<>>]

\* obj.ndims: the number of key dimensions
ndims(d) == d.nkdims

\* len(obj.dimensions()): key and value dimensions together
ndimensions(d) == d.nkdims + d.nvdims

\* nvdims = len(dims) - 2
nvdims_of(d) == ndimensions(d) - 2

Table(nk, nv, rows) ==
    [gridded |-> FALSE, nkdims |-> nk, nvdims |-> nv,
     rows |-> rows, xs |-> <<>>, ys |-> <<>>, cells |-> <<>>]

Grid(nk, nv, xs, ys, cells) ==
    [gridded |-> TRUE, nkdims |-> nk, nvdims |-> nv,
     rows |-> <<>>, xs |-> xs, ys |-> ys, cells |-> cells]

\* <<key dimensions, value dimensions>> of the inputs
DimConfigs == (0..3) \X (0..2)

Accepted(c) == c[1] <= 2 /\ c[1] + c[2] >= 3

\* the remaining dimensions, dims[2:], of an input with these dimensions
Remaining(c) == Max0(c[1] + c[2] - 2)

RowsOf(n) == XVals \X YVals \X [1..n -> Vals]

\* tables of two key dimensions and one value dimension have up to MaxRows
\* rows, tables of other accepted dimensions up to two
RowCounts(c) == IF c = <<2, 1>> THEN 1..MaxRows ELSE 1..2

\* a table the checks of lines 90-94 reject; its rows are never read
RejectedRows(c) == <<<<1, 1, [k \in 1..Remaining(c) |-> 5]>>>>

\* an input already stored in a gridded interface, of any dimensionality
GriddedInput(c, ys) ==
    Grid(c[1], c[2], <<1>>, ys, [k \in 1..c[2] |-> [i \in DOMAIN ys |-> <<5>>]])

\* ------------------------------------------- ordering of the Y values

\* orderings = OrderedDict(): a dictionary from a Y value to its successors
EmptyDict == [k \in {} |-> <<>>]

\* orderings[k] = v: an existing entry for k is replaced
SetItem(dict, k, v) ==
    [x \in (DOMAIN dict) \cup {k} |-> IF x = k THEN v ELSE dict[x]]

\* for i in range(len(vals)-1): orderings[vals[i]] = [vals[i+1]]
RECURSIVE pair_orderings(_, _, _)
pair_orderings(dict, vals, i) ==
    IF i > Len(vals) - 1 THEN dict
    ELSE pair_orderings(SetItem(dict, vals[i], <<vals[i + 1]>>), vals, i + 1)

\* the body of the loop over the groups, for one group's Y column
group_orderings(dict, vals) ==
    IF Len(vals) = 1 THEN SetItem(dict, vals[1], <<>>)
    ELSE pair_orderings(dict, vals, 1)

group_is_sorted(sorted, vals) ==
    IF Len(vals) = 1 THEN sorted
    ELSE sorted /\ np_sort(vals) = vals

\* the loop over the groups, from group g on
RECURSIVE all_orderings(_, _, _)
all_orderings(dict, grouped, g) ==
    IF g > Len(grouped) THEN dict
    ELSE all_orderings(group_orderings(dict, column(grouped[g], 2)), grouped, g + 1)

RECURSIVE all_is_sorted(_, _, _)
all_is_sorted(sorted, grouped, g) ==
    IF g > Len(grouped) THEN sorted
    ELSE all_is_sorted(group_is_sorted(sorted, column(grouped[g], 2)), grouped, g + 1)

\* is_sorted = np.array_equal(np.sort(d1keys), d1keys), before the loop
initial_is_sorted(xkeys, ykeys) == np_sort(xkeys) = xkeys

Perms(S) == {p \in [1..Cardinality(S) -> S] : Range(p) = S}

Pos(p, v) == CHOOSE i \in DOMAIN p : p[i] = v

graph_nodes(graph) == (DOMAIN graph) \cup UNION {Range(graph[k]) : k \in DOMAIN graph}

\* list(itertools.chain(*sort_topologically(graph))): the flattened orders a
\* topological sort of the graph may give, every node once and every key
\* before its successors; the set is empty when the graph has a cycle
sort_topologically(graph) ==
    {p \in Perms(graph_nodes(graph)) :
        \A k \in DOMAIN graph : \A c \in Range(graph[k]) : Pos(p, k) < Pos(p, c)}

\* ---------------------------------------------------- padding, aggregation

\* ys, xs = cartesian_product([d2keys, d1keys]), flattened: Y varies slowest
cartesian_product(ykeys, xkeys) ==
    LET nx == Len(xkeys)
        n  == Len(ykeys) * nx
    IN  [ys |-> [m \in 1..n |-> ykeys[((m - 1) \div nx) + 1]],
         xs |-> [m \in 1..n |-> xkeys[((m - 1) % nx) + 1]]]

\* the table of the cross product with every value column filled with NaN
dense_data(ykeys, xkeys, nvd) ==
    LET cp == cartesian_product(ykeys, xkeys)
    IN  [m \in DOMAIN cp.xs |-> <<cp.xs[m], cp.ys[m], [k \in 1..nvd |-> NaN]>>]

\* Dataset(data, ...) accepts columns of one length only: the coordinate
\* columns have one entry per cross-product row, the value columns nsamples
dense_columns_agree(ykeys, xkeys, n) == Len(ykeys) * Len(xkeys) = n

\* obj.interface.concatenate([dense_data, Dataset(obj)])
concatenate(dense, rows) == dense \o rows

\* concat_data.aggregate([xdim, ydim], function): one row per (x, y) pair, in
\* the order of the pairs' first occurrence, each value column reduced
aggregate(rows, nvd) ==
    LET pairs == unique_values([i \in DOMAIN rows |-> <<rows[i][1], rows[i][2]>>])
        of(pr) == SelectSeq(rows, LAMBDA r : <<r[1], r[2]>> = pr)
    IN  [m \in DOMAIN pairs |->
            <<pairs[m][1], pairs[m][2],
              [k \in 1..nvd |-> reduce_fn([i \in DOMAIN of(pairs[m]) |-> of(pairs[m])[i][3][k]])]>>]

\* agg.dimension_values(vdim).reshape(shape), for every value dimension
reshape(agg, shp, nvd) ==
    [k \in 1..nvd |->
        [i \in 1..shp[1] |-> [j \in 1..shp[2] |-> agg[(i - 1) * shp[2] + j][3][k]]]]

\* a grid_data whose X coordinates are sorted like the Y coordinates
grid_data_sorted_x(xkeys, ykeys, cells) ==
    [xs |-> np_sort(xkeys), ys |-> ykeys, cells |-> cells]

\* grid_data = {xdim: d1keys, ydim: d2keys, vdim.name: ...}
grid_data(xkeys, ykeys, cells) ==
    [xs |-> xkeys, ys |-> ykeys, cells |-> cells]

\* an update in place: the grid written into the object of the argument
clone_in_place(objref, fresh) == objref

\* agg.clone(...) builds a new object

clone_ref(objref, fresh) == fresh

\* ------------------------------------------------------- the guards
\* a gridded test that never succeeds
is_gridded_never(d) == FALSE

\* isinstance(obj, Dataset) and obj.interface.gridded; every input is a Dataset
is_gridded(d) == d.gridded

\* the key-dimension test with the limit one too high
too_many_kdims_off_by_one(d) == ndims(d) > 3

\* obj.ndims > 2
too_many_kdims(d) == ndims(d) > 2

\* len(obj.dimensions()) < 3
too_few_dims(d) == ndimensions(d) < 3

\* ------------------------------------------------------------- the state
VARIABLES
    store,      \* the objects: reference -> dataset (NoData: not allocated)
    obj,        \* the argument of the call in progress, a reference
    pc,         \* position of the call in _process
    d1keys,     \* local d1keys
    d2keys,     \* local d2keys
    shape,      \* local shape, <<len(d2keys), len(d1keys)>>
    orderings,  \* local orderings
    is_sorted,  \* local is_sorted
    outcome,    \* "none", "returned" or "raised"
    error,      \* what was raised
    result,     \* the reference returned, -1 when none
    ncalls,     \* calls started so far
    hex,        \* the hex_binning._process call: its inputs, locals, position
    path,       \* the PathPlot / ContourPlot get_data call
    line,       \* the LineAnnotationPlot: element, get_data and get_extents
    spline      \* the SplinePlot.get_data call

vars == <<store, obj, pc, d1keys, d2keys, shape, orderings, is_sorted,
          outcome, error, result, ncalls, hex, path, line, spline>>

\* the state of the plotting operations, which the aggregation never touches
plots == <<hex, path, line, spline>>

\* the state of the aggregation, which the plotting operations never touch
aggregation == <<store, obj, pc, d1keys, d2keys, shape, orderings, is_sorted,
                 outcome, error, result, ncalls>>

\* an operation that is not under study in a specification
Idle == [pc |-> "idle"]

locals == <<d1keys, d2keys, shape, orderings, is_sorted>>

\* nsamples = np.product(shape)
nsamples == shape[1] * shape[2]

NoLocals ==
    /\ d1keys = <<>>
    /\ d2keys = <<>>
    /\ shape = <<0, 0>>
    /\ orderings = EmptyDict
    /\ is_sorted = FALSE

\* the objects before the first call: the input at reference 0
StoreOf(d) == [r \in Refs |-> IF r = 0 THEN d ELSE NoData]

Init ==
    /\ \E c \in DimConfigs :
          \/ /\ Accepted(c)
             /\ \E n \in RowCounts(c) :
                   \E rows \in [1..n -> RowsOf(Remaining(c))] :
                       store = StoreOf(Table(c[1], c[2], rows))
          \/ /\ ~Accepted(c)
             /\ store = StoreOf(Table(c[1], c[2], RejectedRows(c)))
          \/ \E ys \in {<<1>>, <<2, 1>>} : store = StoreOf(GriddedInput(c, ys))
    /\ obj = 0
    /\ pc = "start"
    /\ NoLocals
    /\ outcome = "none"
    /\ error = "none"
    /\ result = 0 - 1
    /\ ncalls = 1
    /\ hex = Idle
    /\ path = Idle
    /\ line = Idle
    /\ spline = Idle

Return(ref) ==
    /\ pc' = "done"
    /\ outcome' = "returned"
    /\ result' = ref
    /\ UNCHANGED error

Raise(e) ==
    /\ pc' = "done"
    /\ outcome' = "raised"
    /\ error' = e
    /\ UNCHANGED <<result, store>>

\* lines 88-89: a gridded input is returned as it is
ReturnGridded ==
    /\ pc = "start"
    /\ is_gridded(store[obj])
    /\ Return(obj)
    /\ UNCHANGED <<store, obj, locals, ncalls, plots>>

\* lines 90-91
RaiseTooManyKDims ==
    /\ pc = "start"
    /\ ~is_gridded(store[obj])
    /\ too_many_kdims(store[obj])
    /\ Raise("Cannot aggregate more than two dimensions")
    /\ UNCHANGED <<obj, locals, ncalls, plots>>

\* lines 92-94
RaiseTooFewDims ==
    /\ pc = "start"
    /\ ~is_gridded(store[obj])
    /\ ~too_many_kdims(store[obj])
    /\ too_few_dims(store[obj])
    /\ Raise("Must have at two dimensions to aggregate over")
    /\ UNCHANGED <<obj, locals, ncalls, plots>>

\* lines 96-104: the unique keys and the shape
ExtractKeys ==
    /\ pc = "start"
    /\ ~is_gridded(store[obj])
    /\ ~too_many_kdims(store[obj])
    /\ ~too_few_dims(store[obj])
    /\ d1keys' = unique_values(column(store[obj].rows, 1))
    /\ d2keys' = unique_values(column(store[obj].rows, 2))
    /\ shape' = <<Len(d2keys'), Len(d1keys')>>
    /\ pc' = "group"
    /\ UNCHANGED <<store, obj, orderings, is_sorted, outcome, error, result, ncalls, plots>>

\* lines 106-119: the precedence table and is_sorted
BuildOrderings ==
    /\ pc = "group"
    /\ LET grouped == groupby(store[obj].rows)
       IN  /\ orderings' = all_orderings(EmptyDict, grouped, 1)
           /\ is_sorted' = all_is_sorted(initial_is_sorted(d1keys, d2keys), grouped, 1)
    /\ pc' = "sort"
    /\ UNCHANGED <<store, obj, d1keys, d2keys, shape, outcome, error, result, ncalls, plots>>

\* lines 120-121
SortNatural ==
    /\ pc = "sort"
    /\ is_sorted
    /\ d2keys' = np_sort(d2keys)
    /\ pc' = "pad"
    /\ UNCHANGED <<store, obj, d1keys, shape, orderings, is_sorted, outcome, error, result, ncalls, plots>>

\* lines 122-123
SortTopological ==
    /\ pc = "sort"
    /\ ~is_sorted
    /\ \E order \in sort_topologically(orderings) : d2keys' = order
    /\ pc' = "pad"
    /\ UNCHANGED <<store, obj, d1keys, shape, orderings, is_sorted, outcome, error, result, ncalls, plots>>

\* lines 122-123 when the table has a cycle: the topological sort fails
SortTopologicalCycle ==
    /\ pc = "sort"
    /\ ~is_sorted
    /\ sort_topologically(orderings) = {}
    /\ Raise("InconsistentOrdering")
    /\ UNCHANGED <<obj, locals, ncalls, plots>>

\* lines 125-133 when the padded columns differ in length
PadRaise ==
    /\ pc = "pad"
    /\ ~dense_columns_agree(d2keys, d1keys, nsamples)
    /\ Raise("columns of unequal length")
    /\ UNCHANGED <<obj, locals, ncalls, plots>>

\* lines 125-141: pad with NaN, aggregate, reshape and return the grid
PadAggregate ==
    /\ pc = "pad"
    /\ dense_columns_agree(d2keys, d1keys, nsamples)
    /\ LET nvd    == nvdims_of(store[obj])
           dense  == dense_data(d2keys, d1keys, nvd)
           concat == concatenate(dense, store[obj].rows)
           agg    == aggregate(concat, nvd)
           gd     == grid_data(d1keys, d2keys, reshape(agg, shape, nvd))
           ref    == clone_ref(obj, ncalls)
       IN  /\ store' = [store EXCEPT ![ref] = Grid(2, nvd, gd.xs, gd.ys, gd.cells)]
           /\ Return(ref)
    /\ UNCHANGED <<obj, locals, ncalls, plots>>

\* the operation applied to the dataset it returned
Reapply ==
    /\ pc = "done"
    /\ outcome = "returned"
    /\ ncalls < MaxCalls
    /\ obj' = result
    /\ ncalls' = ncalls + 1
    /\ pc' = "start"
    /\ d1keys' = <<>>
    /\ d2keys' = <<>>
    /\ shape' = <<0, 0>>
    /\ orderings' = EmptyDict
    /\ is_sorted' = FALSE
    /\ outcome' = "none"
    /\ error' = "none"
    /\ result' = 0 - 1
    /\ UNCHANGED <<store, plots>>

Next ==
    \/ ReturnGridded
    \/ RaiseTooManyKDims
    \/ RaiseTooFewDims
    \/ ExtractKeys
    \/ BuildOrderings
    \/ SortNatural
    \/ SortTopological
    \/ SortTopologicalCycle
    \/ PadRaise
    \/ PadAggregate
    \/ Reapply

Spec == Init /\ [][Next]_vars

\* the aggregation at rest, in the specifications of the plotting operations
AggregationIdle ==
    /\ store = StoreOf(NoData)
    /\ obj = 0
    /\ pc = "idle"
    /\ NoLocals
    /\ outcome = "none"
    /\ error = "none"
    /\ result = 0 - 1
    /\ ncalls = 0

\* ================================================ hex_binning._process
\* (plotting/bokeh/hex_tiles.py)  A point is <<x, y, vs>>, vs the values of
\* the element's value dimensions; a coordinate is NaN (not finite), 1 or 2.

CoordVals == {NaN, 1, 2}

HexVals == {5, 7}

\* isfinite(v)
isfinite(v) == v /= NaN

\* indexes = [1, 0] if self.p.invert_axes else [0, 1]
hex_indexes(invert) == IF invert THEN <<2, 1>> ELSE <<1, 2>>

\* finite = isfinite(x) & isfinite(y)
finite_mask(x, y) == [i \in DOMAIN x |-> isfinite(x[i]) /\ isfinite(y[i])]

\* a[finite]: the entries of a at the positions where the mask holds
RECURSIVE masked(_, _)
masked(a, mask) ==
    IF a = <<>> THEN <<>>
    ELSE LET rest == masked(SubSeq(a, 1, Len(a) - 1), SubSeq(mask, 1, Len(a) - 1))
         IN  IF mask[Len(a)] THEN Append(rest, a[Len(a)]) ELSE rest

\* cartesian_to_axial(x, y, ...): one <<q, r>> per point, computed point by
\* point; the hexagon of a point is taken to be <<x - 1, y - 1>>
cartesian_to_axial(x, y) ==
    [q |-> [i \in DOMAIN x |-> x[i] - 1], r |-> [i \in DOMAIN y |-> y[i] - 1]]

\* np.full_like(q, 1)
full_like_one(q) == [i \in DOMAIN q |-> 1]

\* element.dimension_values(vdim): the whole column of value dimension k
element_values(points, k) == [i \in DOMAIN points |-> points[i][3][k]]

\* element.clone(data, ...) needs columns of one length
hex_columns_agree(q, r, values) ==
    /\ Len(q) = Len(r)
    /\ \A k \in DOMAIN values : Len(values[k]) = Len(q)

SeqSum(s) == LET S[i \in 0..Len(s)] == IF i = 0 THEN 0 ELSE S[i - 1] + s[i] IN S[Len(s)]

SeqMax(s) == CHOOSE m \in Range(s) : \A v \in Range(s) : v <= m

\* the aggregator applied to the values of one hexagon
apply_aggregator(name, s) == IF name = "size" THEN SeqSum(s) ELSE SeqMax(s)

\* .aggregate(function=aggregator): one row <<q, r, aggregates>> per hexagon
hex_aggregate(q, r, values, name) ==
    {<<b[1], b[2],
       [k \in DOMAIN values |->
           apply_aggregator(name,
               masked(values[k], [i \in DOMAIN q |-> <<q[i], r[i]>> = b]))]>> :
     b \in {<<q[i], r[i]>> : i \in DOMAIN q}}

\* agg[:, :, min_count:], applied when min_count is not None (here 0) and > 1
hex_min_count(agg, min_count) ==
    IF min_count > 1 THEN {b \in agg : b[3][1] >= min_count} ELSE agg

HexLocals == [x |-> <<>>, y |-> <<>>, q |-> <<>>, r |-> <<>>, values |-> <<>>,
              agg |-> {}, outcome |-> "none"]

HexCall(points, nvd, aggregator, invert, min_count) ==
    [pc |-> "start", points |-> points, nvdims |-> nvd, aggregator |-> aggregator,
     invert_axes |-> invert, min_count |-> min_count] @@ HexLocals

HexInit ==
    /\ \E nvd \in 0..1, aggregator \in {"size", "max"}, invert \in BOOLEAN,
          min_count \in 0..2, n \in 0..MaxPoints :
          \E points \in [1..n -> CoordVals \X CoordVals \X [1..nvd -> HexVals]] :
              hex = HexCall(points, nvd, aggregator, invert, min_count)
    /\ AggregationIdle
    /\ path = Idle
    /\ line = Idle
    /\ spline = Idle

HexColumn(i) == [n \in DOMAIN hex.points |-> hex.points[n][hex_indexes(hex.invert_axes)[i]]]

\* lines 56-58: an element without points is returned empty
HexReturnEmpty ==
    /\ hex.pc = "start"
    /\ Len(HexColumn(1)) = 0
    /\ hex' = [hex EXCEPT !.pc = "done", !.outcome = "returned"]
    /\ UNCHANGED <<aggregation, path, line, spline>>

\* lines 56-62: the finite points and their hexagonal coordinates
HexCoordinates ==
    /\ hex.pc = "start"
    /\ Len(HexColumn(1)) /= 0
    /\ LET finite == finite_mask(HexColumn(1), HexColumn(2))
           x == masked(HexColumn(1), finite)
           y == masked(HexColumn(2), finite)
           c == cartesian_to_axial(x, y)
       IN  hex' = [hex EXCEPT !.pc = "values", !.x = x, !.y = y, !.q = c.q, !.r = c.r]
    /\ UNCHANGED <<aggregation, path, line, spline>>

\* lines 65-68: counting, the default aggregator
HexCountValues ==
    /\ hex.pc = "values"
    /\ hex.aggregator = "size"
    /\ hex' = [hex EXCEPT !.pc = "aggregate", !.values = <<full_like_one(hex.q)>>]
    /\ UNCHANGED <<aggregation, path, line, spline>>

\* lines 69-71
HexRaiseNoVdims ==
    /\ hex.pc = "values"
    /\ hex.aggregator /= "size"
    /\ hex.nvdims = 0
    /\ hex' = [hex EXCEPT !.pc = "done", !.outcome = "raised"]
    /\ UNCHANGED <<aggregation, path, line, spline>>

\* lines 72-74: the columns of the element's value dimensions
HexElementValues ==
    /\ hex.pc = "values"
    /\ hex.aggregator /= "size"
    /\ hex.nvdims /= 0
    /\ hex' = [hex EXCEPT !.pc = "aggregate",
                   !.values = [k \in 1..hex.nvdims |-> element_values(hex.points, k)]]
    /\ UNCHANGED <<aggregation, path, line, spline>>

\* lines 76-81 when the columns of data differ in length
HexRaiseUnequal ==
    /\ hex.pc = "aggregate"
    /\ ~hex_columns_agree(hex.q, hex.r, hex.values)
    /\ hex' = [hex EXCEPT !.pc = "done", !.outcome = "raised"]
    /\ UNCHANGED <<aggregation, path, line, spline>>

\* lines 76-84: the aggregate per hexagon, cut at min_count
HexAggregate ==
    /\ hex.pc = "aggregate"
    /\ hex_columns_agree(hex.q, hex.r, hex.values)
    /\ hex' = [hex EXCEPT !.pc = "done", !.outcome = "returned",
                   !.agg = hex_min_count(
                       hex_aggregate(hex.q, hex.r, hex.values, hex.aggregator),
                       hex.min_count)]
    /\ UNCHANGED <<aggregation, path, line, spline>>

HexNext ==
    \/ HexReturnEmpty
    \/ HexCoordinates
    \/ HexCountValues
    \/ HexRaiseNoVdims
    \/ HexElementValues
    \/ HexRaiseUnequal
    \/ HexAggregate

HexSpec == HexInit /\ [][HexNext]_vars

\* the points of the element whose x and y are both finite
RetainedPoints ==
    {i \in DOMAIN hex.points :
        hex.points[i][1] /= NaN /\ hex.points[i][2] /= NaN}

\* C12: the hex coordinate columns q, r and every value column handed to the
\* aggregation have one row per retained point (x and y finite), with the
\* counting aggregator and with a value aggregator alike.
C12_ColumnsOnePerRetainedPoint ==
    hex.pc = "aggregate"
    => /\ Len(hex.q) = Cardinality(RetainedPoints)
       /\ Len(hex.r) = Cardinality(RetainedPoints)
       /\ \A k \in DOMAIN hex.values :
             Len(hex.values[k]) = Cardinality(RetainedPoints)

\* ================================== PathPlot.get_data, ContourPlot.get_data
\* (plotting/mpl/path.py)  A path is a sequence of vertices <<x, y>>, an
\* array with one row per vertex; the coordinates are numbers, not dates.

PathXVals == {1, 2}

PathYVals == {3}

PathsOfElement ==
    UNION {[1..n -> UNION {[1..m -> PathXVals \X PathYVals] : m \in 1..MaxPathLen}] :
           n \in 1..MaxPaths}

\* p[:, ::-1]: the columns of every row exchanged, the rows in place
reverse_columns(p) == [i \in DOMAIN p |-> <<p[i][2], p[i][1]>>]

\* p[::-1]: the rows in reverse order, every row as it is
reverse_rows(p) == [i \in DOMAIN p |-> p[Len(p) + 1 - i]]

\* np.column_stack([xarr, yarr])
column_stack(xarr, yarr) == [i \in DOMAIN xarr |-> <<xarr[i], yarr[i]>>]

\* arr[s1:s2+1] for (s1, s2) in zip(range(length-1), range(1, length+1))
path_segments(arr) == [s \in 1..(Len(arr) - 1) |-> SubSeq(arr, s, s + 1)]

PathCall(plot, paths, style_mapping, invert) ==
    [pc |-> "start", plot |-> plot, element |-> paths,
     style_mapping |-> style_mapping, invert_axes |-> invert,
     i |-> 1, collected |-> <<>>, paths |-> <<>>]

PathInit ==
    /\ \E plot \in {"PathPlot", "ContourPlot"}, paths \in PathsOfElement,
          style_mapping \in BOOLEAN, invert \in BOOLEAN :
          path = PathCall(plot, paths, style_mapping, invert)
    /\ AggregationIdle
    /\ hex = Idle
    /\ line = Idle
    /\ spline = Idle

\* PathPlot.get_data, lines 28-36
PathBegin ==
    /\ path.pc = "start"
    /\ path.plot = "PathPlot"
    /\ path' = [path EXCEPT !.pc = "loop"]
    /\ UNCHANGED <<aggregation, hex, line, spline>>

\* lines 37-50: without style mapping the whole path is one entry
PathAppendWhole ==
    /\ path.pc = "loop"
    /\ path.i <= Len(path.element)
    /\ ~path.style_mapping
    /\ LET el  == path.element[path.i]
           arr == column_stack(column(el, 1), column(el, 2))
       IN  path' = [path EXCEPT !.paths = Append(@, arr), !.i = @ + 1]
    /\ UNCHANGED <<aggregation, hex, line, spline>>

\* lines 37-53: with style mapping every pair of neighbours is one entry
PathAppendSegments ==
    /\ path.pc = "loop"
    /\ path.i <= Len(path.element)
    /\ path.style_mapping
    /\ LET el  == path.element[path.i]
           arr == column_stack(column(el, 1), column(el, 2))
       IN  path' = [path EXCEPT !.paths = @ \o path_segments(arr), !.i = @ + 1]
    /\ UNCHANGED <<aggregation, hex, line, spline>>

\* the loop of line 37 is over
PathLoopEnd ==
    /\ path.pc = "loop"
    /\ path.i > Len(path.element)
    /\ path' = [path EXCEPT !.pc = "invert", !.collected = path.paths]
    /\ UNCHANGED <<aggregation, hex, line, spline>>

\* lines 54-55 and the return: paths = [p[::-1] for p in paths]
PathInvertAxes ==
    /\ path.pc = "invert"
    /\ path.plot = "PathPlot"
    /\ path.invert_axes
    /\ path' = [path EXCEPT !.pc = "done",
                    !.paths = [n \in DOMAIN path.paths |-> reverse_rows(path.paths[n])]]
    /\ UNCHANGED <<aggregation, hex, line, spline>>

\* lines 54-62 without invert_axes
PathReturn ==
    /\ path.pc = "invert"
    /\ path.plot = "PathPlot"
    /\ ~path.invert_axes
    /\ path' = [path EXCEPT !.pc = "done"]
    /\ UNCHANGED <<aggregation, hex, line, spline>>

\* ContourPlot.get_data, lines 103-105: an element that is not a Polygons
ContourSplit ==
    /\ path.pc = "start"
    /\ path.plot = "ContourPlot"
    /\ path' = [path EXCEPT !.pc = "invert", !.paths = path.element,
                    !.collected = path.element]
    /\ UNCHANGED <<aggregation, hex, line, spline>>

\* lines 106-107: paths = [p[:, ::-1] for p in paths]
ContourInvertAxes ==
    /\ path.pc = "invert"
    /\ path.plot = "ContourPlot"
    /\ path.invert_axes
    /\ path' = [path EXCEPT !.pc = "done",
                    !.paths = [n \in DOMAIN path.paths |-> reverse_columns(path.paths[n])]]
    /\ UNCHANGED <<aggregation, hex, line, spline>>

ContourReturn ==
    /\ path.pc = "invert"
    /\ path.plot = "ContourPlot"
    /\ ~path.invert_axes
    /\ path' = [path EXCEPT !.pc = "done"]
    /\ UNCHANGED <<aggregation, hex, line, spline>>

PathNext ==
    \/ PathBegin
    \/ PathAppendWhole
    \/ PathAppendSegments
    \/ PathLoopEnd
    \/ PathInvertAxes
    \/ PathReturn
    \/ ContourSplit
    \/ ContourInvertAxes
    \/ ContourReturn

PathSpec == PathInit /\ [][PathNext]_vars

\* the vertices of p in their order, x and y of each exchanged
Exchanged(p) == [i \in DOMAIN p |-> <<p[i][2], p[i][1]>>]

\* C13: with invert_axes PathPlot.get_data returns every collected path with
\* x and y of each vertex exchanged and the vertices in their order, as
\* ContourPlot.get_data does; without it the paths are the (x, y) rows in
\* source order.
C13_PathAxesExchanged ==
    (path.pc = "done" /\ path.plot = "PathPlot")
    => /\ Len(path.paths) = Len(path.collected)
       /\ ~path.style_mapping => path.collected = path.element
       /\ \A n \in DOMAIN path.paths :
             path.paths[n] = IF path.invert_axes
                             THEN Exchanged(path.collected[n])
                             ELSE path.collected[n]

\* ============================ LineAnnotationPlot.get_data and .get_extents
\* (plotting/bokeh/annotation.py)  The element is a VLine or an HLine whose
\* data is its location, a number.  ranges maps each axis to its ranges; the
\* soft range is the one get_extents writes.

LineLocs == {1, 2, 3}

NoRange == <<>>

SoftRanges == {NoRange, <<0, 9>>}

LineCall(kind, loc, invert, ranges) ==
    [pc |-> "plot", element |-> kind, data |-> loc, invert_axes |-> invert,
     ranges0 |-> ranges, ranges |-> ranges,
     mapping |-> EmptyDict, data_done |-> FALSE, extents_done |-> FALSE]

LineInit ==
    /\ \E kind \in {"VLine", "HLine"}, loc \in LineLocs, invert \in BOOLEAN,
          sx \in SoftRanges, sy \in SoftRanges :
          line = LineCall(kind, loc, invert,
                          [d \in {"x", "y"} |-> [soft |-> IF d = "x" THEN sx ELSE sy]])
    /\ AggregationIdle
    /\ hex = Idle
    /\ path = Idle
    /\ spline = Idle

\* get_data, lines 121-123
span_dimension(kind, invert) ==
    LET dim == IF kind = "HLine" THEN "width" ELSE "height"
    IN  IF invert
        THEN (IF dim = "height" THEN "width" ELSE "height")
        ELSE dim

\* get_extents, lines 141-146
extents_dim(kind, invert) ==
    LET dim == IF kind = "VLine" THEN "x" ELSE "y"
    IN  IF invert
        THEN (IF dim = "y" THEN "x" ELSE "x")
        ELSE dim

\* get_data, lines 119-129
LineGetData ==
    /\ line.pc = "plot"
    /\ ~line.data_done
    /\ line' = [line EXCEPT
                  !.mapping = SetItem(SetItem(EmptyDict, "dimension",
                                  span_dimension(line.element, line.invert_axes)),
                                  "location", line.data),
                  !.data_done = TRUE]
    /\ UNCHANGED <<aggregation, hex, path, spline>>

\* get_extents, lines 139-147; the ranges it has written are then handed to
\* the get_extents of the base class
LineGetExtents ==
    /\ line.pc = "plot"
    /\ ~line.extents_done
    /\ LET dim == extents_dim(line.element, line.invert_axes)
       IN  line' = [line EXCEPT !.ranges[dim].soft = <<line.data, line.data>>,
                                !.extents_done = TRUE]
    /\ UNCHANGED <<aggregation, hex, path, spline>>

LineNext ==
    \/ LineGetData
    \/ LineGetExtents

LineSpec == LineInit /\ [][LineNext]_vars

\* the axis along which the location of the drawn line is measured
DrawnAxis ==
    IF line.element = "VLine"
    THEN (IF line.invert_axes THEN "y" ELSE "x")
    ELSE (IF line.invert_axes THEN "x" ELSE "y")

OtherAxis == IF DrawnAxis = "x" THEN "y" ELSE "x"

\* C14: get_extents records the location as the soft range of the axis on
\* which the line is drawn, 'x' for a VLine and 'y' for an HLine, exchanged
\* under invert_axes, and leaves the other axis alone; the axis agrees with the
\* Span dimension of get_data (a Span of dimension 'height' sits on 'x').
C14_SoftRangeOnDrawnAxis ==
    (line.pc = "plot" /\ line.extents_done)
    => /\ line.ranges[DrawnAxis].soft = <<line.data, line.data>>
       /\ line.ranges[OtherAxis].soft = line.ranges0[OtherAxis].soft
       /\ line.data_done
          => (line.mapping["dimension"] = "height" <=> DrawnAxis = "x")

\* ===================================================== SplinePlot.get_data
\* (plotting/bokeh/annotation.py)  element.data is (verts, codes): one path
\* code per vertex, 1 (MOVETO) opening a segment, 4 (CURVE4) continuing it.

SplineCodes == {1, 4}

SplineXVals == {1, 2}

SplineYVals == {3}

\* lines 162-165
data_attrs(invert) ==
    IF invert
    THEN <<"y0", "x0", "cy0", "cx0", "cy1", "cx1", "y1", "x1">>
    ELSE <<"x0", "y0", "cx0", "cy0", "cx1", "cy1", "x1", "y1">>

\* np.where(np.array(codes) == 1)[0]: the 0-based positions of code 1, ascending
RECURSIVE where_one(_)
where_one(codes) ==
    IF codes = <<>>
    THEN <<>>
    ELSE LET front == where_one(SubSeq(codes, 1, Len(codes) - 1))
         IN  IF codes[Len(codes)] = 1
             THEN Append(front, Len(codes) - 1)
             ELSE front

\* inds[1:]
slice_from_1(inds) == IF inds = <<>> THEN <<>> ELSE Tail(inds)

\* np.split(verts, cuts): the pieces of verts between consecutive cut positions
np_split(verts, cuts) ==
    LET bounds == <<0>> \o cuts \o <<Len(verts)>>
    IN  [k \in 1..(Len(cuts) + 1) |-> SubSeq(verts, bounds[k] + 1, bounds[k + 1])]

\* lines 174-176: one coordinate appended to each of the eight lists
append_segment(data, vs, attrs) ==
    [da \in DOMAIN data |->
        LET j == CHOOSE n \in 1..8 : attrs[n] = da
        IN  Append(data[da], vs[(j + 1) \div 2][IF j % 2 = 1 THEN 1 ELSE 2])]

SplineCall(verts, codes, invert) ==
    [pc |-> "start", verts |-> verts, codes |-> codes, invert_axes |-> invert,
     segments |-> <<>>, i |-> 1, data |-> EmptyDict,
     skipped |-> FALSE, warned |-> FALSE]

SplineInit ==
    /\ \E n \in 0..MaxVerts, invert \in BOOLEAN :
          \E verts \in [1..n -> SplineXVals \X SplineYVals],
             codes \in [1..n -> SplineCodes] :
             spline = SplineCall(verts, codes, invert)
    /\ AggregationIdle
    /\ hex = Idle
    /\ path = Idle
    /\ line = Idle

\* lines 161-170
SplineBegin ==
    /\ spline.pc = "start"
    /\ spline' = [spline EXCEPT
                    !.pc = "loop",
                    !.segments = np_split(spline.verts,
                                          slice_from_1(where_one(spline.codes))),
                    !.data = [da \in Range(data_attrs(spline.invert_axes)) |-> <<>>],
                    !.skipped = FALSE]
    /\ UNCHANGED <<aggregation, hex, path, line>>

\* lines 171-173: skipped = len(vs) > 1
SplineSkip ==
    /\ spline.pc = "loop"
    /\ spline.i <= Len(spline.segments)
    /\ Len(spline.segments[spline.i]) /= 4
    /\ spline' = [spline EXCEPT !.skipped = Len(spline.segments[spline.i]) > 1,
                                !.i = @ + 1]
    /\ UNCHANGED <<aggregation, hex, path, line>>

\* lines 174-176
SplineAppend ==
    /\ spline.pc = "loop"
    /\ spline.i <= Len(spline.segments)
    /\ Len(spline.segments[spline.i]) = 4
    /\ spline' = [spline EXCEPT
                    !.data = append_segment(spline.data, spline.segments[spline.i],
                                            data_attrs(spline.invert_axes)),
                    !.i = @ + 1]
    /\ UNCHANGED <<aggregation, hex, path, line>>

\* lines 177-182
SplineWarn ==
    /\ spline.pc = "loop"
    /\ spline.i > Len(spline.segments)
    /\ spline.skipped
    /\ spline' = [spline EXCEPT !.pc = "done", !.warned = TRUE]
    /\ UNCHANGED <<aggregation, hex, path, line>>

\* lines 177, 181-182
SplineReturn ==
    /\ spline.pc = "loop"
    /\ spline.i > Len(spline.segments)
    /\ ~spline.skipped
    /\ spline' = [spline EXCEPT !.pc = "done"]
    /\ UNCHANGED <<aggregation, hex, path, line>>

SplineNext ==
    \/ SplineBegin
    \/ SplineSkip
    \/ SplineAppend
    \/ SplineWarn
    \/ SplineReturn

SplineSpec == SplineInit /\ [][SplineNext]_vars

CubicSegments == {k \in DOMAIN spline.segments : Len(spline.segments[k]) = 4}

UnsupportedSegments ==
    {k \in DOMAIN spline.segments :
        Len(spline.segments[k]) > 1 /\ Len(spline.segments[k]) /= 4}

\* C15: the warning is emitted exactly when some segment with more than one
\* vertex and other than four vertices was skipped, wherever it stands among
\* the segments, and each of the eight coordinate lists has one entry per
\* four-vertex segment.
C15_WarningIffUnsupportedSkipped ==
    spline.pc = "done"
    => /\ spline.warned <=> UnsupportedSegments /= {}
       /\ DOMAIN spline.data = Range(data_attrs(spline.invert_axes))
       /\ \A da \in DOMAIN spline.data :
             Len(spline.data[da]) = Cardinality(CubicSegments)

\* ------------------------------------------------------------ properties

\* the dataset passed to the call in progress
Input == store[obj]

IsTable(d) == ~d.gridded /\ d /= NoData

Finished == pc = "done"

ReturnedGrid == Finished /\ outcome = "returned"

XOf(rows) == {r[1] : r \in Range(rows)}

YOf(rows) == {r[2] : r \in Range(rows)}

\* the values of value dimension k in the rows of the pair (x, y), in row order
ValuesAt(rows, x, y, k) ==
    LET sel == SelectSeq(rows, LAMBDA r : r[1] = x /\ r[2] = y)
    IN  [i \in DOMAIN sel |-> sel[i][3][k]]

\* the first value of s that is not the null marker, the null marker if none
FirstNonNull(s) ==
    IF \E i \in DOMAIN s : s[i] /= NaN
    THEN s[CHOOSE i \in DOMAIN s : s[i] /= NaN /\ \A j \in 1..(i - 1) : s[j] = NaN]
    ELSE NaN

\* the cell of grid g for value dimension k at the coordinates (x, y)
CellAt(g, x, y, k) == g.cells[k][Pos(g.ys, y)][Pos(g.xs, x)]

IsPermutationOf(s, S) == Len(s) = Cardinality(S) /\ Range(s) = S

\* the pairs <<a, b>> with a immediately before b in the Y column of a group
LocalPrecedence(rows) ==
    UNION {{<<column(g, 2)[i], column(g, 2)[i + 1]>> : i \in 1..(Len(g) - 1)} :
           g \in Range(groupby(rows))}

\* the groups do not contradict each other: one order of the Y values agrees
\* with every group's consecutive pairs
Consistent(rows) ==
    \E p \in Perms(YOf(rows)) :
        \A e \in LocalPrecedence(rows) : Pos(p, e[1]) < Pos(p, e[2])

Ascending(s) == \A i \in 1..(Len(s) - 1) : s[i] < s[i + 1]

GridHoldsInput(g, d) ==
    /\ IsPermutationOf(g.xs, XOf(d.rows))
    /\ IsPermutationOf(g.ys, YOf(d.rows))
    /\ \A x \in XOf(d.rows), y \in YOf(d.rows), k \in 1..nvdims_of(d) :
          CellAt(g, x, y, k) =
              IF <<x, y>> \in {<<r[1], r[2]>> : r \in Range(d.rows)}
              THEN FirstNonNull(ValuesAt(d.rows, x, y, k))
              ELSE NaN

\* C1: every table with two key dimensions and at least one value dimension
\* (whose groups are consistent) yields a grid that holds, at row index of y
\* and column index of x, the input's value for every pair present and NaN
\* for every pair of the cross product that is absent.
C1_GridHoldsEveryPair ==
    (Finished /\ IsTable(Input) /\ Input.nkdims = 2 /\ Input.nvdims >= 1
        /\ Consistent(Input.rows))
    => (outcome = "returned" /\ GridHoldsInput(store[result], Input))

\* C2: every table with two key dimensions and one value dimension (whose
\* groups are consistent) yields a grid whose value array has |unique Y| rows
\* of |unique X| cells, one cell per pair of the output coordinates.
C2_GridShape ==
    (Finished /\ IsTable(Input) /\ Input.nkdims = 2 /\ Input.nvdims = 1
        /\ Consistent(Input.rows))
    => /\ outcome = "returned"
       /\ LET g == store[result]
          IN  /\ Len(g.cells[1]) = Cardinality(YOf(Input.rows))
              /\ \A i \in DOMAIN g.cells[1] :
                    Len(g.cells[1][i]) = Cardinality(XOf(Input.rows))
              /\ Len(g.ys) = Len(g.cells[1])
              /\ Len(g.xs) = Cardinality(XOf(Input.rows))

\* C3: a call on a gridded input returns that very object, unchanged, and a
\* call on the output of an earlier call returns that output.
C3_GriddedReturnedUnchanged ==
    [][/\ (pc = "start" /\ store[obj].gridded)
            => (pc' = "done" /\ outcome' = "returned" /\ result' = obj
                /\ obj' = obj /\ store' = store)
       /\ (pc' = "done" /\ ncalls' >= 2)
            => (outcome' = "returned" /\ result' = obj')]_vars

C3_Witness ==
    /\ ReturnedGrid
    /\ ncalls = 2
    /\ result = obj
    /\ obj /= 0
    /\ store[obj].gridded
    /\ Len(store[obj].ys) >= 2

\* C4 as stated: every input with more than two key dimensions, or fewer than
\* three dimensions overall, makes the call raise and return nothing.
C4_Original ==
    (Finished /\ (Input.nkdims > 2 \/ Input.nkdims + Input.nvdims < 3))
    => (outcome = "raised" /\ result = 0 - 1)

\* C4 amended: every input that is not gridded and has more than two key
\* dimensions, or fewer than three dimensions overall, makes the call raise
\* and return nothing.
C4_NonGriddedRejected ==
    (Finished /\ ~Input.gridded
        /\ (Input.nkdims > 2 \/ Input.nkdims + Input.nvdims < 3))
    => (outcome = "raised" /\ result = 0 - 1)

C4_Witness ==
    /\ Finished
    /\ ~Input.gridded
    /\ Input.nkdims > 2
    /\ Input.nkdims + Input.nvdims >= 3
    /\ outcome = "raised"

\* C5: when the unique Y keys are ascending and the Y column of every group
\* is ascending, the output Y order is the ascending sort of the unique Y
\* values, whatever the order of the X keys.
C5_AscendingYKept ==
    (Finished /\ IsTable(Input) /\ Input.nkdims = 2 /\ Input.nvdims >= 1
        /\ Ascending(unique_values(column(Input.rows, 2)))
        /\ \A g \in Range(groupby(Input.rows)) : Ascending(column(g, 2)))
    => (outcome = "returned"
        /\ store[result].ys = np_sort(unique_values(column(Input.rows, 2))))

\* C6: when the groups do not contradict each other, y_a immediately before
\* y_b in the Y column of some group implies y_a before y_b in the output.
C6_OutputAgreesWithGroups ==
    (Finished /\ IsTable(Input) /\ Input.nkdims = 2 /\ Input.nvdims >= 1
        /\ Consistent(Input.rows))
    => (outcome = "returned"
        /\ \A e \in LocalPrecedence(Input.rows) :
              /\ e[1] \in Range(store[result].ys)
              /\ e[2] \in Range(store[result].ys)
              /\ Pos(store[result].ys, e[1]) < Pos(store[result].ys, e[2]))

\* C7: no step of a call changes a dataset that exists, the input included,
\* and the grid a call on a table returns is a new object.
C7_InputNotMutated ==
    [][/\ \A r \in Refs : store[r] /= NoData => store'[r] = store[r]
       /\ (pc = "pad" /\ pc' = "done" /\ outcome' = "returned")
            => (result' /= obj /\ store[result'] = NoData
                /\ store'[result'].gridded)]_vars

C7_Witness ==
    /\ ReturnedGrid
    /\ IsTable(Input)
    /\ result /= obj
    /\ Len(Input.rows) >= 2
    /\ store[result].gridded

\* C8: the output X coordinates are the distinct X values of the rows in the
\* order of their first occurrence, in the natural-sort branch and in the
\* topological-sort branch alike.
C8_XFirstOccurrenceOrder ==
    (ReturnedGrid /\ IsTable(Input))
    => LET xs == store[result].xs
           xcol == column(Input.rows, 1)
           first(v) == CHOOSE i \in DOMAIN xcol :
                          xcol[i] = v /\ \A j \in 1..(i - 1) : xcol[j] /= v
       IN  /\ IsPermutationOf(xs, Range(xcol))
           /\ \A i, j \in DOMAIN xs : i < j => first(xs[i]) < first(xs[j])

C8_Witness ==
    /\ ReturnedGrid
    /\ IsTable(Input)
    /\ ~is_sorted
    /\ store[result].xs = <<2, 1>>
    /\ Len(store[result].ys) >= 2

\* C9: the global Y order handed to the padding step is a permutation of the
\* distinct Y values of the input, so the cross product has as many rows as
\* the value columns allocated from the shape (nsamples).
C9_YOrderIsPermutation ==
    (pc = "pad" /\ Consistent(Input.rows))
    => /\ IsPermutationOf(d2keys, YOf(Input.rows))
       /\ Len(d2keys) * Len(d1keys) = nsamples

BoundedValueSeqs == UNION {[1..n -> Vals] : n \in 0..MaxRows}

====
